---- MODULE Spec2Model ----
(***************************************************************************)
(* Model of api/app.py: the Flask backend of the technical chatbot.        *)
(*                                                                         *)
(* The module body of app.py runs once at import (startup); afterwards the *)
(* WSGI host dispatches requests to the handlers index, health, ask,       *)
(* summarize and to Flask's static-file view.  The upstream Gemini model   *)
(* is an external collaborator: each call to model.generate_content has a  *)
(* nondeterministic outcome (it raises, or it returns a response whose     *)
(* text is absent, None, or some string).                                  *)
(*                                                                         *)
(* Text is modelled as a sequence of string tokens.  User-supplied strings *)
(* are sequences of one-character tokens, so that str.strip() is computed  *)
(* character by character; the fixed literals of the source are one token  *)
(* each.                                                                   *)
(***************************************************************************)
EXTENDS Integers, Sequences, FiniteSets, TLC

VARIABLES pc, osEnv, API_KEY, genaiKey, model, routes,
          upstreamCalls, nRequests, nPassed, nFailures, last

vars == <<pc, osEnv, API_KEY, genaiKey, model, routes,
          upstreamCalls, nRequests, nPassed, nFailures, last>>

(***************************************************************************)
(* Bounds of the model.                                                    *)
(***************************************************************************)
\* longest user-supplied question and longest upstream text, in characters
MaxStrLen == 2
\* longest 'qa' list of a summarize request
MaxQA == 2
\* number of requests served in one behaviour
MaxRequests == 2

(***************************************************************************)
(* Strings.                                                                *)
(***************************************************************************)
\* the characters user text is made of: one whitespace, one non-whitespace
Chars == {" ", "a"}

Strings(n) == UNION {[1..k -> Chars] : k \in 0..n}

\* str.isspace() for one character
IsSpace(c) == c \in {" ", "\t", "\n", "\r"}

RECURSIVE LStrip(_)
LStrip(s) == IF s # <<>> /\ IsSpace(Head(s)) THEN LStrip(Tail(s)) ELSE s

RECURSIVE RStrip(_)
RStrip(s) ==
    IF s # <<>> /\ IsSpace(s[Len(s)]) THEN RStrip(SubSeq(s, 1, Len(s) - 1)) ELSE s

\* a str.strip() that strips nothing
StripNothing(s) == s

\* str.strip(): leading and trailing whitespace removed
Strip(s) == RStrip(LStrip(s))

(***************************************************************************)
(* Startup: the module body of app.py.                                     *)
(***************************************************************************)
\* os.getenv / os.environ value of a variable that is not set
Absent == "<absent>"
EmptyValue == ""
SomeKey == "k"

KeyValues == {Absent, EmptyValue, SomeKey}

\* a check that only rejects an unset variable (is None), not an empty one
KeyOnlyNone(k) == k = Absent

\* `not API_KEY`: None and "" are both falsy
KeyMissing(k) == k = Absent \/ k = EmptyValue

(***************************************************************************)
(* JSON values, with Python's truthiness.                                  *)
(***************************************************************************)
\* the value of a 'q' or 'a' key of a QA item: absent, or a string
NoField == [has |-> FALSE, s |-> <<>>]
Field(s) == [has |-> TRUE, s |-> s]

\* the elements of a 'qa' list: an object {q, a}, null, and a non-empty
\* string (truthy, not an object)
ObjItem(q, a) == [t |-> "obj", b |-> TRUE, q |-> q, a |-> a]
NullItem == [t |-> "null", b |-> FALSE, q |-> NoField, a |-> NoField]
StrItem == [t |-> "str", b |-> TRUE, q |-> NoField, a |-> NoField]
PairItem == ObjItem(Field(<<"a">>), Field(<<"b">>))
Items == {PairItem, NullItem, StrItem}

ItemLists(n) == UNION {[1..k -> Items] : k \in 0..n}

\* a JSON value: t is its type, b its truthiness where the type leaves it
\* open (number, boolean, object), s its characters (string), items its
\* elements (list)
JMissing == [t |-> "missing", b |-> FALSE, s |-> <<>>, items |-> <<>>]
JNull == [t |-> "null", b |-> FALSE, s |-> <<>>, items |-> <<>>]
JStr(s) == [t |-> "str", b |-> s # <<>>, s |-> s, items |-> <<>>]
JNum(nonzero) == [t |-> "num", b |-> nonzero, s |-> <<>>, items |-> <<>>]
JObj(nonempty) == [t |-> "obj", b |-> nonempty, s |-> <<>>, items |-> <<>>]
JList(items) == [t |-> "list", b |-> items # <<>>, s |-> <<>>, items |-> items]

Scalars == {JNull, JNum(FALSE), JNum(TRUE), JObj(TRUE)}

\* bool(v) in Python
Truthy(v) ==
    CASE v.t = "str" -> v.s # <<>>
      [] v.t = "list" -> v.items # <<>>
      [] v.t \in {"null", "missing"} -> FALSE
      [] OTHER -> v.b

\* the values a 'question' key may carry
QuestionValues ==
    {JMissing} \cup Scalars \cup {JStr(s) : s \in Strings(MaxStrLen)}
        \cup {JList(<<>>), JList(<<NullItem>>)}

\* the values a 'qa' key may carry
QaValues ==
    {JMissing} \cup Scalars \cup {JStr(<<>>), JStr(<<"a">>)}
        \cup {JList(l) : l \in ItemLists(MaxQA)}

\* a request body: t = "nojson" when the body is absent or does not parse,
\* otherwise the type of the JSON document; question and qa are the keys
\* of an object
Body(t, b, question, qa) == [t |-> t, b |-> b, question |-> question, qa |-> qa]
NonObjectBodies ==
    {Body("nojson", FALSE, JMissing, JMissing)}
        \cup {Body(t, b, JMissing, JMissing) :
                t \in {"num", "list"}, b \in BOOLEAN}
AskBodies ==
    NonObjectBodies \cup {Body("obj", v.t # "missing", v, JMissing) : v \in QuestionValues}
SummarizeBodies ==
    NonObjectBodies \cup {Body("obj", v.t # "missing", JMissing, v) : v \in QaValues}

(***************************************************************************)
(* The upstream model.                                                     *)
(***************************************************************************)
\* the outcome of one model.generate_content call: it raises, or returns a
\* response without a text attribute, with text None, or with a string
Outcome(t, s) == [t |-> t, s |-> s]
Outcomes ==
    {Outcome("raise", <<>>), Outcome("notext", <<>>), Outcome("none", <<>>)}
        \cup {Outcome("text", s) : s \in Strings(MaxStrLen)}

UpstreamError == "upstream failure"
AttributeError == "object has no attribute"

(***************************************************************************)
(* Helpers of the handlers: prompt building and text extraction.           *)
(***************************************************************************)
\* what a helper hands back: it raised exc, or returned value; prompt is
\* the argument of the generate_content call it made, calls their number
Helper(raised, exc, value, prompt, calls) ==
    [raised |-> raised, exc |-> exc, value |-> value, prompt |-> prompt,
     calls |-> calls]

\* the fixed instructions of the answer prompt
AnswerScaffold ==
    <<"Responda no contexto acima **em Markdown**. ",
      "Use títulos curtos (##), listas quando fizer sentido e blocos de código com a linguagem quando houver trechos de código. ",
      "\nPergunta do usuário: ">>

\* a prompt that leaves the question out
AnswerPromptNoQuestion(question) == AnswerScaffold

\* the f-string of generate_markdown_answer
AnswerPrompt(question) == AnswerScaffold \o question

AnswerFallback == "Não consegui gerar resposta."
SummaryFallback == "Não foi possível gerar o resumo."

\* an extraction that returns the upstream text as it came
TextAsIs(out, fallback) == IF out.t = "text" THEN out.s ELSE <<>>

\* (getattr(resp, "text", "") or "").strip() or fallback
ExtractText(out, fallback) ==
    LET text == IF out.t = "text" THEN out.s ELSE <<>>
        stripped == Strip(text)
    IN  IF stripped # <<>> THEN stripped ELSE <<fallback>>

\* generate_markdown_answer(question) under the upstream outcome out
generate_markdown_answer(question, out) ==
    LET prompt == AnswerPrompt(question)
    IN  IF out.t = "raise"
        THEN Helper(TRUE, UpstreamError, <<>>, prompt, 1)
        ELSE Helper(FALSE, "", ExtractText(out, AnswerFallback), prompt, 1)

\* str(i) for a small natural number
Digit(d) ==
    CASE d = 0 -> "0" [] d = 1 -> "1" [] d = 2 -> "2" [] d = 3 -> "3"
      [] d = 4 -> "4" [] d = 5 -> "5" [] d = 6 -> "6" [] d = 7 -> "7"
      [] d = 8 -> "8" [] d = 9 -> "9"

RECURSIVE IntToStr(_)
IntToStr(i) ==
    IF i < 10 THEN <<Digit(i)>> ELSE IntToStr(i \div 10) \o <<Digit(i % 10)>>

\* the five instruction lines every summary prompt starts with ([bullet]
\* stands for the character U+2022 of the source)
SummaryHeader ==
    << <<"Resuma de forma objetiva as interações abaixo.">>,
       <<"[bullet] Traga ATÉ 8 tópicos (bullets).">>,
       <<"[bullet] Termine com 'Próximas ações:' e 3 itens.">>,
       <<>>,
       <<"Conteúdo para resumir:">> >>

\* (item or {}).get(key, "") raises for a truthy item that is not an object
ItemRaises(item) == item.t # "obj" /\ item.b

\* (item or {}).get("q", "") and (item or {}).get("a", "")
ItemQ(item) == IF item.t = "obj" /\ item.q.has THEN item.q.s ELSE <<>>
ItemA(item) == IF item.t = "obj" /\ item.a.has THEN item.a.s ELSE <<>>

\* the two lines of the i-th item, answer line first
ItemLinesSwapped(i, item) ==
    << <<"- Resposta ">> \o IntToStr(i) \o <<": ">> \o ItemA(item),
       <<"- Pergunta ">> \o IntToStr(i) \o <<": ">> \o ItemQ(item) >>

\* the two linhas.append calls of one loop iteration
ItemLines(i, item) ==
    << <<"- Pergunta ">> \o IntToStr(i) \o <<": ">> \o ItemQ(item),
       <<"- Resposta ">> \o IntToStr(i) \o <<": ">> \o ItemA(item) >>

\* enumerate(qa, start=1)
EnumerateStart == 1

RECURSIVE LoopLines(_, _)
LoopLines(items, i) ==
    IF items = <<>> THEN <<>>
    ELSE ItemLines(i, Head(items)) \o LoopLines(Tail(items), i + 1)

\* linhas after the loop
SummaryLines(items) == SummaryHeader \o LoopLines(items, EnumerateStart)

\* "\n".join(lines)
RECURSIVE Join(_)
Join(lines) ==
    IF lines = <<>> THEN <<>>
    ELSE IF Len(lines) = 1 THEN Head(lines)
    ELSE Head(lines) \o <<"\n">> \o Join(Tail(lines))

\* summarize_markdown(qa) under the upstream outcome out
summarize_markdown(items, out) ==
    IF \E i \in 1..Len(items) : ItemRaises(items[i])
    THEN Helper(TRUE, AttributeError, <<>>, <<>>, 0)
    ELSE LET prompt == Join(SummaryLines(items))
         IN  IF out.t = "raise"
             THEN Helper(TRUE, UpstreamError, <<>>, prompt, 1)
             ELSE Helper(FALSE, "", ExtractText(out, SummaryFallback), prompt, 1)

(***************************************************************************)
(* The handlers, as functions of the request body and upstream outcome.    *)
(***************************************************************************)
\* a response: status, kind of body (the JSON key, or what Flask sent),
\* its text, the prompt sent upstream, the number of upstream calls made
\* and whether an upstream call failed
Response(status, kind, text, prompt, calls, failed) ==
    [status |-> status, kind |-> kind, text |-> text, prompt |-> prompt,
     calls |-> calls, failed |-> failed]

\* an exception no handler catches: Flask answers 500
Unhandled(exc) == Response(500, "unhandled", <<exc>>, <<>>, 0, FALSE)

\* bool(request.get_json(silent=True)): an absent or unparsable body is None
BodyTruthy(body) == body.t \notin {"nojson", "null"} /\ body.b

\* `request.get_json(silent=True) or {}` is a dict
DataIsDict(body) == body.t = "obj" \/ ~BodyTruthy(body)

\* data.get(key) for the dict `request.get_json(silent=True) or {}`
DataGet(body, key) ==
    LET v == IF body.t # "obj" THEN JMissing
             ELSE IF key = "question" THEN body.question ELSE body.qa
    IN  IF v.t = "missing" THEN JNull ELSE v

\* a validation of 'qa' that only asks for a list
QaNotList(qa) == qa.t # "list"

\* `not qa or not isinstance(qa, list)`
QaInvalid(qa) == ~Truthy(qa) \/ qa.t # "list"

\* a handler that answers 200 with the error text
ErrorAsOk(prefix, exc) == Response(200, "error", <<prefix, exc>>, <<>>, 0, FALSE)

\* the except branch: jsonify({"error": f"...: {e}"}), 500
ErrorResponse(prefix, exc) == Response(500, "error", <<prefix, exc>>, <<>>, 0, FALSE)

\* ask()
AskResponse(body, out) ==
    IF ~DataIsDict(body) THEN Unhandled(AttributeError)
    ELSE
    LET v == DataGet(body, "question")
        q == IF Truthy(v) THEN v ELSE JStr(<<>>)
    IN  IF q.t # "str" THEN Unhandled(AttributeError)
        ELSE
        LET question == Strip(q.s)
        IN  IF question = <<>>
            THEN Response(400, "error", <<"Campo 'question' é obrigatório">>,
                          <<>>, 0, FALSE)
            ELSE
            LET h == generate_markdown_answer(question, out)
            IN  IF h.raised
                THEN [ErrorResponse("Erro ao gerar resposta: ", h.exc)
                        EXCEPT !.prompt = h.prompt, !.calls = h.calls,
                               !.failed = h.calls > 0]
                ELSE Response(200, "answer", h.value, h.prompt, h.calls, FALSE)

\* summarize()
SummarizeResponse(body, out) ==
    IF ~DataIsDict(body) THEN Unhandled(AttributeError)
    ELSE
    LET qa == DataGet(body, "qa")
    IN  IF QaInvalid(qa)
        THEN Response(400, "error", <<"Campo 'qa' deve ser uma lista">>,
                      <<>>, 0, FALSE)
        ELSE
        LET h == summarize_markdown(qa.items, out)
        IN  IF h.raised
            THEN [ErrorResponse("Erro ao gerar resumo: ", h.exc)
                    EXCEPT !.prompt = h.prompt, !.calls = h.calls,
                           !.failed = h.calls > 0]
            ELSE Response(200, "summary", h.value, h.prompt, h.calls, FALSE)

(***************************************************************************)
(* Startup actions.                                                        *)
(***************************************************************************)
\* the URL rules of the application
StaticRule == "/<path:filename>"
ApiRules == {"/", "/api/health", "/api/ask", "/api/summarize"}

\* the request record before any request was served
NoBody == Body("nojson", FALSE, JMissing, JMissing)
NoOutcome == Outcome("none", <<>>)
NoRequest ==
    [ep |-> "none", method |-> "", path |-> "", body |-> NoBody, out |-> NoOutcome,
     status |-> 0, kind |-> "none", text |-> <<>>, prompt |-> <<>>,
     before |-> 0]

Init ==
    /\ pc = "start"
    /\ osEnv \in KeyValues
    /\ API_KEY = Absent
    /\ genaiKey = Absent
    /\ model = FALSE
    /\ routes = {}
    /\ upstreamCalls = 0
    /\ nRequests = 0
    /\ nPassed = 0
    /\ nFailures = 0
    /\ last = NoRequest

\* load_dotenv(find_dotenv(), override=True): the .env file, when it sets
\* the variable (dotenvFile # Absent), replaces the process environment's value
LoadDotenv ==
    /\ pc = "start"
    /\ \E dotenvFile \in KeyValues :
        osEnv' = IF dotenvFile # Absent THEN dotenvFile ELSE osEnv
    /\ pc' = "loaded"
    /\ UNCHANGED <<API_KEY, genaiKey, model, routes,
                   upstreamCalls, nRequests, nPassed, nFailures, last>>

\* API_KEY = os.getenv(...); if not API_KEY: raise RuntimeError
ReadApiKey ==
    /\ pc = "loaded"
    /\ API_KEY' = osEnv
    /\ pc' = IF KeyMissing(osEnv) THEN "aborted" ELSE "keyed"
    /\ UNCHANGED <<osEnv, genaiKey, model, routes,
                   upstreamCalls, nRequests, nPassed, nFailures, last>>

\* genai.configure(api_key=API_KEY)
Configure ==
    /\ pc = "keyed"
    /\ genaiKey' = API_KEY
    /\ pc' = "configured"
    /\ UNCHANGED <<osEnv, API_KEY, model, routes,
                   upstreamCalls, nRequests, nPassed, nFailures, last>>

\* model = genai.GenerativeModel(...)
CreateModel ==
    /\ pc = "configured"
    /\ model' = TRUE
    /\ pc' = "modelled"
    /\ UNCHANGED <<osEnv, API_KEY, genaiKey, routes,
                   upstreamCalls, nRequests, nPassed, nFailures, last>>

\* app = Flask(__name__, static_folder=PUBLIC_DIR, static_url_path=""):
\* Flask registers the static view at the root
CreateApp ==
    /\ pc = "modelled"
    /\ routes' = {StaticRule}
    /\ pc' = "app"
    /\ UNCHANGED <<osEnv, API_KEY, genaiKey, model,
                   upstreamCalls, nRequests, nPassed, nFailures, last>>

\* the @app.route decorators
RegisterRoutes ==
    /\ pc = "app"
    /\ routes' = routes \cup ApiRules
    /\ pc' = "routed"
    /\ UNCHANGED <<osEnv, API_KEY, genaiKey, model,
                   upstreamCalls, nRequests, nPassed, nFailures, last>>

\* app.run(debug=True, port=8000), or the WSGI host taking over `app`
Run ==
    /\ pc = "routed"
    /\ pc' = "serving"
    /\ UNCHANGED <<osEnv, API_KEY, genaiKey, model, routes,
                   upstreamCalls, nRequests, nPassed, nFailures, last>>

(***************************************************************************)
(* Routing and the request actions.                                        *)
(***************************************************************************)
Methods == {"GET", "POST"}
Paths == {"/", "/api/health", "/health", "/api/ask", "/api/summarize",
          "/style.css", "/index.html"}

\* the files of the public directory (index.html + style.css)
PublicFiles == {"/index.html", "/style.css"}

\* the view function and the method of each @app.route rule
EndpointOf(rule) ==
    CASE rule = "/" -> "index"
      [] rule = "/api/health" -> "health"
      [] rule = "/api/ask" -> "ask"
      [] rule = "/api/summarize" -> "summarize"
MethodOf(rule) == IF rule \in {"/api/ask", "/api/summarize"} THEN "POST" ELSE "GET"

\* a routing table whose healthcheck sits at /health
RouteHealthAtRoot(method, path) ==
    IF path = "/health" /\ method = "GET" THEN "health"
    ELSE IF path \in (routes \cap ApiRules) \ {"/api/health"}
            /\ method = MethodOf(path) THEN EndpointOf(path)
    ELSE IF StaticRule \in routes /\ path # "/"
         THEN IF method = "GET" THEN "static" ELSE "not_allowed"
    ELSE IF path \in routes THEN "not_allowed" ELSE "not_found"

\* the URL map: a fixed rule wins when its method matches; otherwise any
\* non-empty path falls to the static view (GET only)
Route(method, path) ==
    IF path \in routes \cap ApiRules /\ method = MethodOf(path)
    THEN EndpointOf(path)
    ELSE IF StaticRule \in routes /\ path # "/"
         THEN IF method = "GET" THEN "static" ELSE "not_allowed"
    ELSE IF path \in routes THEN "not_allowed" ELSE "not_found"

\* send_from_directory(PUBLIC_DIR, file)
SendFromDirectory(file) ==
    IF file \in PublicFiles
    THEN Response(200, "file", <<file>>, <<>>, 0, FALSE)
    ELSE Response(404, "not_found", <<"Not Found">>, <<>>, 0, FALSE)

\* jsonify({"ok": True})
HealthResponse == Response(200, "ok", <<"true">>, <<>>, 0, FALSE)

\* the bookkeeping of one served request
Serve(ep, method, path, body, out, r) ==
    /\ last' = [ep |-> ep, method |-> method, path |-> path, body |-> body,
                out |-> out, status |-> r.status, kind |-> r.kind,
                text |-> r.text, prompt |-> r.prompt,
                before |-> upstreamCalls]
    /\ upstreamCalls' = upstreamCalls + r.calls
    /\ nRequests' = nRequests + 1
    /\ nPassed' = nPassed + (IF ep \in {"ask", "summarize"} /\ r.status # 400
                             THEN 1 ELSE 0)
    /\ nFailures' = nFailures + (IF r.failed THEN 1 ELSE 0)
    /\ UNCHANGED <<pc, osEnv, API_KEY, genaiKey, model, routes>>

Accepting == pc = "serving" /\ nRequests < MaxRequests

Index ==
    /\ Accepting
    /\ \E method \in Methods, path \in Paths :
        /\ Route(method, path) = "index"
        /\ Serve("index", method, path, NoBody, NoOutcome,
                 SendFromDirectory("/index.html"))

Health ==
    /\ Accepting
    /\ \E method \in Methods, path \in Paths :
        /\ Route(method, path) = "health"
        /\ Serve("health", method, path, NoBody, NoOutcome, HealthResponse)

Static ==
    /\ Accepting
    /\ \E method \in Methods, path \in Paths :
        /\ Route(method, path) = "static"
        /\ Serve("static", method, path, NoBody, NoOutcome,
                 SendFromDirectory(path))

MethodNotAllowed ==
    /\ Accepting
    /\ \E method \in Methods, path \in Paths :
        /\ Route(method, path) = "not_allowed"
        /\ Serve("not_allowed", method, path, NoBody, NoOutcome,
                 Response(405, "not_allowed", <<"Method Not Allowed">>,
                          <<>>, 0, FALSE))

Ask ==
    /\ Accepting
    /\ \E method \in Methods, path \in Paths :
        /\ Route(method, path) = "ask"
        /\ \E body \in AskBodies, out \in Outcomes :
           LET r == AskResponse(body, out)
           IN  Serve("ask", method, path, body,
                     IF r.calls > 0 THEN out ELSE NoOutcome, r)

Summarize ==
    /\ Accepting
    /\ \E method \in Methods, path \in Paths :
        /\ Route(method, path) = "summarize"
        /\ \E body \in SummarizeBodies, out \in Outcomes :
           LET r == SummarizeResponse(body, out)
           IN  Serve("summarize", method, path, body,
                     IF r.calls > 0 THEN out ELSE NoOutcome, r)

Next ==
    \/ LoadDotenv
    \/ ReadApiKey
    \/ Configure
    \/ CreateModel
    \/ CreateApp
    \/ RegisterRoutes
    \/ Run
    \/ Index
    \/ Health
    \/ Static
    \/ MethodNotAllowed
    \/ Ask
    \/ Summarize

Spec == Init /\ [][Next]_vars
(***************************************************************************)
(* Vocabulary of the properties.                                           *)
(***************************************************************************)
PostAsk == last.method = "POST" /\ last.path = "/api/ask"
PostSummarize == last.method = "POST" /\ last.path = "/api/summarize"

\* the request carried a JSON object, or no JSON document at all
ObjectOrNoJson(body) == body.t \in {"obj", "nojson"}

AllSpace(s) == \A i \in 1..Len(s) : IsSpace(s[i])

\* 'question' is missing, empty or whitespace-only
QuestionBlank(body) ==
    /\ ObjectOrNoJson(body)
    /\ \/ body.question.t = "missing"
       \/ body.question.t = "str" /\ AllSpace(body.question.s)

\* 'question' is a string with something other than whitespace in it
QuestionValid(body) ==
    body.t = "obj" /\ body.question.t = "str" /\ ~AllSpace(body.question.s)

\* 'qa' is absent or is not a list
QaAbsentOrNotList(body) == ObjectOrNoJson(body) /\ body.qa.t # "list"

\* 'qa' is a non-empty list whose elements are objects or null
QaValid(body) ==
    /\ body.t = "obj" /\ body.qa.t = "list" /\ body.qa.items # <<>>
    /\ \A i \in 1..Len(body.qa.items) : body.qa.items[i].t \in {"obj", "null"}

\* the request was answered 400 with a message and made no upstream call
Rejected400 ==
    /\ last.status = 400 /\ last.kind = "error" /\ last.text # <<>>
    /\ upstreamCalls = last.before

\* the request made exactly one upstream call
OneCall == upstreamCalls = last.before + 1

\* the lines of a text: its pieces between "\n" tokens
RECURSIVE SplitLines(_)
SplitLines(s) ==
    IF \A i \in 1..Len(s) : s[i] # "\n" THEN <<s>>
    ELSE LET k == CHOOSE i \in 1..Len(s) :
                    s[i] = "\n" /\ \A j \in 1..(i - 1) : s[j] # "\n"
         IN  <<SubSeq(s, 1, k - 1)>> \o SplitLines(SubSeq(s, k + 1, Len(s)))

(***************************************************************************)
(* Properties.                                                             *)
(***************************************************************************)
\* C1: a request that fails input validation (ask: 'question' missing,
\* empty or whitespace-only; summarize: 'qa' absent or not a list) is
\* answered 400 with an error message and issues no upstream call.
C1_InvalidInputRejected ==
    /\ (PostAsk /\ QuestionBlank(last.body)) => Rejected400
    /\ (PostSummarize /\ QaAbsentOrNotList(last.body)) => Rejected400

C1_Witness ==
    /\ PostAsk /\ last.body.question = JStr(<<" ", " ">>)
    /\ last.status = 400 /\ upstreamCalls = last.before /\ nRequests = 2

\* C2: for a non-empty trimmed question Q, POST /api/ask issues exactly one
\* upstream call, whose prompt is the fixed scaffolding followed by Q.
C2_AskPromptCarriesQuestion ==
    (/\ PostAsk /\ last.body.t = "obj" /\ last.body.question.t = "str"
     /\ last.body.question.s # <<>>
     /\ ~IsSpace(Head(last.body.question.s))
     /\ ~IsSpace(last.body.question.s[Len(last.body.question.s)]))
    => /\ OneCall
       /\ Len(last.prompt) = Len(AnswerScaffold) + Len(last.body.question.s)
       /\ SubSeq(last.prompt, 1, Len(AnswerScaffold)) = AnswerScaffold
       /\ SubSeq(last.prompt, Len(AnswerScaffold) + 1, Len(last.prompt))
            = last.body.question.s

C2_Witness ==
    /\ PostAsk /\ last.body.question = JStr(<<"a", "a">>)
    /\ OneCall /\ last.prompt = AnswerScaffold \o <<"a", "a">>

\* C3 as stated: POST /api/summarize with {qa: []} is not rejected with
\* 400; a prompt of the instruction header alone is built and sent upstream.
C3_EmptyListAccepted ==
    (PostSummarize /\ last.body.t = "obj" /\ last.body.qa = JList(<<>>))
    => /\ last.status # 400
       /\ OneCall
       /\ last.prompt = Join(SummaryHeader)

\* C3 amended: POST /api/summarize with {qa: []} is rejected with 400 and
\* an error message; no prompt is built and no upstream call is issued.
C3_EmptyListRejected ==
    (PostSummarize /\ last.body.t = "obj" /\ last.body.qa = JList(<<>>))
    => Rejected400 /\ last.prompt = <<>>

C3_Witness ==
    /\ PostSummarize /\ last.body.t = "obj" /\ last.body.qa = JList(<<>>)
    /\ last.status = 400

\* C4: the summary prompt of a list of N pairs is the five header lines
\* followed by exactly N pairs of lines, the i-th pair being the question
\* line numbered i and then the answer line numbered i of the i-th element.
C4_SummaryPromptEnumeratesPairs ==
    (PostSummarize /\ OneCall)
    => LET items == last.body.qa.items
           N == Len(items)
           lines == SplitLines(last.prompt)
       IN  /\ Len(lines) = Len(SummaryHeader) + 2 * N
           /\ SubSeq(lines, 1, Len(SummaryHeader)) = SummaryHeader
           /\ \A i \in 1..N :
                /\ lines[Len(SummaryHeader) + 2 * i - 1]
                     = <<"- Pergunta ">> \o IntToStr(i) \o <<": ">> \o ItemQ(items[i])
                /\ lines[Len(SummaryHeader) + 2 * i]
                     = <<"- Resposta ">> \o IntToStr(i) \o <<": ">> \o ItemA(items[i])

C4_Witness ==
    /\ PostSummarize /\ OneCall
    /\ last.body.qa.items = <<NullItem, PairItem>>
    /\ Len(SplitLines(last.prompt)) = 9

\* C5: when the upstream call fails, ask and summarize answer 500 with an
\* error message and the server keeps serving: after failures, a valid
\* request still reaches the model and, if the model answers, gets 200.
C5_UpstreamFailureIs500 ==
    /\ ((PostAsk \/ PostSummarize) /\ OneCall /\ last.out.t = "raise")
       => /\ last.status = 500 /\ last.kind = "error" /\ last.text # <<>>
          /\ pc = "serving"
    /\ (nFailures > 0 /\ PostAsk /\ QuestionValid(last.body))
       => OneCall /\ (last.out.t # "raise" => last.status = 200 /\ last.kind = "answer")
    /\ (nFailures > 0 /\ PostSummarize /\ QaValid(last.body))
       => OneCall /\ (last.out.t # "raise" => last.status = 200 /\ last.kind = "summary")

C5_Witness ==
    /\ nFailures = 1 /\ nRequests = 2 /\ PostAsk
    /\ last.out.t = "text" /\ last.status = 200 /\ last.kind = "answer"

\* C6 as stated: GET /health answers the payload {"ok": true} and issues no
\* upstream call.
C6_HealthAtRootPath ==
    (last.method = "GET" /\ last.path = "/health")
    => /\ last.status = 200 /\ last.kind = "ok" /\ last.text = <<"true">>
       /\ upstreamCalls = last.before

\* C6 amended: GET /api/health answers the payload {"ok": true} and issues
\* no upstream call, whatever was served before.
C6_HealthAtApiPath ==
    (last.method = "GET" /\ last.path = "/api/health")
    => /\ last.status = 200 /\ last.kind = "ok" /\ last.text = <<"true">>
       /\ upstreamCalls = last.before

C6_Witness ==
    /\ last.method = "GET" /\ last.path = "/api/health" /\ last.status = 200
    /\ nFailures = 1

\* C7: with the API key absent or empty after the environment is loaded,
\* startup aborts before the client is configured, a route is registered
\* or a request is served; no request is ever served without a key.
C7_NoKeyNoService ==
    /\ (pc # "start" /\ osEnv \in {Absent, EmptyValue})
       => /\ pc \in {"loaded", "aborted"}
          /\ genaiKey = Absent /\ ~model /\ routes = {} /\ nRequests = 0
    /\ (pc = "serving" \/ nRequests > 0 \/ routes # {} \/ model \/ genaiKey # Absent)
       => API_KEY \notin {Absent, EmptyValue} /\ genaiKey \notin {EmptyValue}

C7_Witness == pc = "aborted" /\ API_KEY = EmptyValue /\ routes = {}

\* C8: every client input error of ask and summarize (a required field
\* missing or of the wrong type, a body that is not an object) is answered
\* 400 with a message, never 500.
C8_ClientErrorsAre400 ==
    /\ (PostAsk /\ ~QuestionValid(last.body))
       => last.status = 400 /\ last.kind = "error"
    /\ (PostSummarize /\ (last.body.t # "obj" \/ last.body.qa.t # "list"))
       => last.status = 400 /\ last.kind = "error"

\* C9: the number of upstream calls issued equals the number of ask and
\* summarize requests that were not answered 400.
C9_OneCallPerAcceptedRequest == upstreamCalls = nPassed

\* C10: a 200 answer or summary is never empty or whitespace-only: it is
\* the upstream text without its leading and trailing whitespace, or the
\* fixed fallback when that text is missing, empty or whitespace-only; an
\* upstream call that returns is answered 200.
C10_NoBlankAnswer ==
    /\ ((PostAsk \/ PostSummarize) /\ OneCall /\ last.out.t # "raise")
       => last.status = 200
    /\ ((PostAsk \/ PostSummarize) /\ last.status = 200)
       => LET raw == IF last.out.t = "text" THEN last.out.s ELSE <<>>
              fallback == IF PostAsk THEN AnswerFallback ELSE SummaryFallback
          IN  /\ ~AllSpace(last.text)
              /\ IF AllSpace(raw) THEN last.text = <<fallback>>
                 ELSE \E i, j \in 1..Len(raw) :
                        /\ last.text = SubSeq(raw, i, j)
                        /\ ~IsSpace(raw[i]) /\ ~IsSpace(raw[j])
                        /\ \A k \in 1..Len(raw) : (k < i \/ k > j) => IsSpace(raw[k])

C10_Witness ==
    /\ PostAsk /\ last.status = 200
    /\ last.out = Outcome("text", <<" ", " ">>)
    /\ last.text = <<AnswerFallback>>
====
